---------------------------- MODULE Spec2Model ----------------------------
(***************************************************************************)
(* A model of the AIMathsEngineeringFrontend component (daoddee/aitutuor): *)
(* the webhook endpoint resolver, the mount and persist effects, the       *)
(* submit and ping handlers with their asynchronous continuations, and the *)
(* markdown renderer.                                                      *)
(*                                                                         *)
(* Text is modelled as a sequence of one-character strings, so that the    *)
(* regular expressions of the source are computed position by position.    *)
(* JavaScript values are tagged records: [t |-> "undef"], [t |-> "null"],  *)
(* [t |-> "bool", b], [t |-> "num", n], [t |-> "str", s], [t |-> "arr",    *)
(* items], [t |-> "obj", fields].                                          *)
(*                                                                         *)
(* Assumption of the model: window.localStorage is readable and writable   *)
(* (getItem/setItem do not throw), so the outer catch of the resolver is   *)
(* not taken.                                                              *)
(***************************************************************************)
EXTENDS Integers, Sequences, FiniteSets, TLC

VARIABLES
    env,          \* the page's configuration sources other than storage:
                  \*   [qp, glob, vite, metaNext, nextVar]
    storage,      \* localStorage["n8n_webhook_url"] ("" when the key is absent)
    lsAtLoad,     \* what localStorage.getItem returned to the last mount (ls)
    resolvedAtLoad, \* what the resolver returned to the last mount (resolved)
    webhookUrl,   \* useState webhookUrl
    configNotice, \* useState configNotice (TRUE: the notice is set)
    loading,      \* useState loading
    error,        \* useState error
    answer,       \* useState answer
    files,        \* useState files
    pingStatus,   \* useState pingStatus
    submits,      \* the handleSubmit calls suspended at an await, oldest first
    pings,        \* the handlePing calls suspended at their fetch
    md,           \* the argument of the last renderMarkdown call
    html          \* its result (__html)

vars == <<env, storage, lsAtLoad, resolvedAtLoad, webhookUrl, configNotice, loading, error,
          answer, files, pingStatus, submits, pings, md, html>>

configVars == <<env, storage, lsAtLoad, resolvedAtLoad, webhookUrl, configNotice>>
resultVars == <<loading, error, answer, files>>
renderVars == <<md, html>>

---------------------------------------------------------------------------
(* Bounds of the model *)

\* at most this many handleSubmit calls are suspended at once
MaxSubmits == 2
\* at most this many handlePing calls are suspended at once
MaxPings == 1
\* renderMarkdown inputs are concatenations of at most this many pieces
MaxPieces == 4

---------------------------------------------------------------------------
(* Text *)

NoText == <<>>

\* "https://YOUR-N8N-DOMAIN/webhook/ai-agent"
DEFAULT_WEBHOOK_FALLBACK ==
    <<"h","t","t","p","s",":","/","/","Y","O","U","R","-","N","8","N","-",
      "D","O","M","A","I","N","/","w","e","b","h","o","o","k","/","a","i",
      "-","a","g","e","n","t">>

\* the endpoint values of the model, one per place a value can come from
UrlQuery    == <<"h","t","t","p","s",":","/","/","q">>
UrlStored   == <<"H","T","T","P","S",":","/","/","s">>
UrlGlobal   == <<"h","t","t","p",":","/","/","g">>
UrlVite     == <<"h","t","t","p","s",":","/","/","v">>
UrlMetaNext == <<"h","t","t","p","s",":","/","/","m">>
UrlNextVar  == <<"h","t","t","p","s",":","/","/","n">>
UrlTyped    == <<"H","t","T","p",":","/","/","u">>
UrlFtp      == <<"f","t","p",":","/","/","x">>
UrlOneSlash == <<"h","t","t","p",":","/","y">>
UrlInfix    == <<"x","h","t","t","p",":","/","/","z">>

\* one character of a pattern under the i flag
MatchesIgnoreCase(c, lit) ==
    \/ c = lit
    \/ lit = "h" /\ c = "H"
    \/ lit = "t" /\ c = "T"
    \/ lit = "p" /\ c = "P"
    \/ lit = "s" /\ c = "S"

\* the literal lits matches s at position i, ignoring case
LiteralAtIgnoreCase(s, i, lits) ==
    /\ i + Len(lits) - 1 <= Len(s)
    /\ \A k \in 1..Len(lits) : MatchesIgnoreCase(s[i + k - 1], lits[k])

\* the test without its ^ anchor: the scheme may start anywhere
IsWebhookLikelyValidMutUnanchored(url) ==
    \E i \in 1..Len(url) :
        /\ LiteralAtIgnoreCase(url, i, <<"h","t","t","p">>)
        /\ \/ LiteralAtIgnoreCase(url, i + 4, <<":","/","/">>)
           \/ /\ LiteralAtIgnoreCase(url, i + 4, <<"s">>)
              /\ LiteralAtIgnoreCase(url, i + 5, <<":","/","/">>)

\* /^https?:\/\//i.test(webhookUrl)
IsWebhookLikelyValid(url) ==
    /\ LiteralAtIgnoreCase(url, 1, <<"h","t","t","p">>)
    /\ \/ LiteralAtIgnoreCase(url, 5, <<":","/","/">>)
       \/ /\ LiteralAtIgnoreCase(url, 5, <<"s">>)
          /\ LiteralAtIgnoreCase(url, 6, <<":","/","/">>)

---------------------------------------------------------------------------
(* The endpoint resolver *)

\* meta?.VITE_N8N_WEBHOOK_URL || meta?.NEXT_PUBLIC_N8N_WEBHOOK_URL
ViteVar(e) == IF e.vite # NoText THEN e.vite ELSE e.metaNext

\* a resolver that asks the injected global before storage
ResolveMutGlobalFirst(e, ls) ==
    IF e.qp # NoText THEN e.qp
    ELSE IF e.glob # NoText THEN e.glob
    ELSE IF ls # NoText THEN ls
    ELSE IF ViteVar(e) # NoText THEN ViteVar(e)
    ELSE IF e.nextVar # NoText THEN e.nextVar
    ELSE DEFAULT_WEBHOOK_FALLBACK

\* a resolver that asks storage before the query parameter
ResolveMutStorageFirst(e, ls) ==
    IF ls # NoText THEN ls
    ELSE IF e.qp # NoText THEN e.qp
    ELSE IF e.glob # NoText THEN e.glob
    ELSE IF ViteVar(e) # NoText THEN ViteVar(e)
    ELSE IF e.nextVar # NoText THEN e.nextVar
    ELSE DEFAULT_WEBHOOK_FALLBACK

\* resolveWebhookUrlClientSafe(), reading sources e and the stored value ls
resolveWebhookUrlClientSafe(e, ls) ==
    IF e.qp # NoText THEN e.qp
    ELSE IF ls # NoText THEN ls
    ELSE IF e.glob # NoText THEN e.glob
    ELSE IF ViteVar(e) # NoText THEN ViteVar(e)
    ELSE IF e.nextVar # NoText THEN e.nextVar
    ELSE DEFAULT_WEBHOOK_FALLBACK

\* a persist effect that never writes
PersistedMutNoWrite(prev, url, stored) == stored

\* the persist effect, run by React after the first render and after every
\* render in which webhookUrl differs from the previous one (prev): what
\* storage holds afterwards
Persisted(prev, url, stored) ==
    IF url # prev /\ url # NoText THEN url ELSE stored

\* the mount effect's test for the configuration-incomplete notice
NoticeFor(resolved) ==
    resolved = NoText \/ resolved = DEFAULT_WEBHOOK_FALLBACK

---------------------------------------------------------------------------
(* JavaScript values *)

Undef == [t |-> "undef"]
Null == [t |-> "null"]
Bool(b) == [t |-> "bool", b |-> b]
Num(n) == [t |-> "num", n |-> n]
Str(s) == [t |-> "str", s |-> s]
Arr(items) == [t |-> "arr", items |-> items]
Obj(fields) == [t |-> "obj", fields |-> fields]

\* a message: the pieces of a template literal, in order
Msg(parts) == [t |-> "msg", parts |-> parts]


IsEmptyMsg(m) == \A k \in 1..Len(m.parts) : m.parts[k] = ""

\* a thrown value: its name and its message
Exception(name, message) == [name |-> name, message |-> message]

\* String(n) for a natural number, as a template literal embeds it
Digit == <<"0","1","2","3","4","5","6","7","8","9">>
RECURSIVE DecimalText(_)
DecimalText(n) ==
    IF n < 10 THEN Digit[n + 1]
    ELSE DecimalText(n \div 10) \o Digit[(n % 10) + 1]

\* v || "" and friends: the falsy values of JavaScript
Truthy(v) ==
    CASE v.t = "undef" -> FALSE
      [] v.t = "null"  -> FALSE
      [] v.t = "bool"  -> v.b
      [] v.t = "num"   -> v.n # 0
      [] v.t = "str"   -> v.s # NoText
      [] OTHER         -> TRUE

\* j[key] for a value j that is neither null nor undefined
Get(j, key) ==
    IF j.t = "obj" /\ key \in DOMAIN j.fields THEN j.fields[key] ELSE Undef

\* a test for 200 alone
ResOkMutOnly200(status) == status = 200

\* Response.ok
ResOk(status) == status >= 200 /\ status <= 299

---------------------------------------------------------------------------
(* Messages of the component *)

INVALID_SUBMIT_MSG == Msg(<<"Invalid or missing webhook URL. Open Settings to configure.">>)
TIMED_OUT_MSG == Msg(<<"Request timed out after 60s. Try again or check your n8n logs.">>)
REQUEST_FAILED_MSG == Msg(<<"Request failed">>)
INVALID_PING_MSG == Msg(<<"Webhook URL invalid. Fix in Settings.">>)
PING_FAILED_MSG == Msg(<<"Ping failed">>)

\* `Upstream error ${res.status}: ${t}`
UpstreamMsg(status, t) == Msg(<<"Upstream error ", DecimalText(status), ": ", t>>)

\* `Ping failed: ${res.status}`
PingStatusMsg(status) == Msg(<<"Ping failed: ", DecimalText(status)>>)

\* what controller.abort() makes the pending fetch reject with
AbortError == Exception("AbortError", Msg(<<"The user aborted a request.">>))

\* a catch block that does not tell the abort from other failures
SubmitCatchMutNoAbortCase(err) ==
    IF ~IsEmptyMsg(err.message) THEN err.message ELSE REQUEST_FAILED_MSG

\* the catch block of handleSubmit: the error it stores
SubmitCatch(err) ==
    IF err.name = "AbortError" THEN TIMED_OUT_MSG
    ELSE IF ~IsEmptyMsg(err.message) THEN err.message
    ELSE REQUEST_FAILED_MSG

\* the catch block of handlePing: the error it stores
PingCatch(err) ==
    IF ~IsEmptyMsg(err.message) THEN err.message ELSE PING_FAILED_MSG

---------------------------------------------------------------------------
(* What the network can answer *)

\* the HTTP statuses of the model
Statuses == {200, 204, 500}

\* what res.text() yields for a non-2xx response
ErrorTexts == {"", "oops"}

\* what a failed fetch or a failed body read rejects with
NetworkErrors ==
    { Exception("TypeError", Msg(<<"Failed to fetch">>)),
      Exception("TypeError", Msg(<<"">>)) }

Hi == <<"h","i">>
FileA == Obj([name |-> Str(<<"a">>), url |-> Str(<<"u">>)])

\* the body is not JSON: what res.json() rejects with
Unparseable(message) == [t |-> "unparseable", message |-> message]

\* a 2xx body: its text and what JSON.parse makes of it
Body(text, parsed) == [text |-> text, parsed |-> parsed]

Bodies ==
    { Body("{\"answer_markdown\":\"hi\",\"files\":[{\"name\":\"a\",\"url\":\"u\"}]}",
           Obj([answer_markdown |-> Str(Hi), files |-> Arr(<<FileA>>)])),
      Body("{\"answer_markdown\":\"hi\"}",
           Obj([answer_markdown |-> Str(Hi)])),
      Body("{}", Obj([k \in {} |-> Undef])),
      Body("{\"answer_markdown\":\"hi\",\"files\":\"a\"}",
           Obj([answer_markdown |-> Str(Hi), files |-> Str(<<"a">>)])),
      Body("{\"files\":{\"name\":\"a\",\"url\":\"u\"}}",
           Obj([files |-> FileA])),
      Body("{\"answer_markdown\":null,\"files\":null}",
           Obj([answer_markdown |-> Null, files |-> Null])),
      Body("{\"answer_markdown\":0,\"files\":[]}",
           Obj([answer_markdown |-> Num(0), files |-> Arr(<<>>)])),
      Body("{\"answer_markdown\":5}",
           Obj([answer_markdown |-> Num(5)])),
      Body("{\"answer_markdown\":\"\"}",
           Obj([answer_markdown |-> Str(NoText)])),
      Body("[]", Arr(<<>>)),
      Body("7", Num(7)),
      Body("\"hi\"", Str(Hi)),
      Body("true", Bool(TRUE)),
      Body("null", Null),
      Body("<html>", Unparseable(Msg(<<"Unexpected token '<', \"<html>\" is not valid JSON">>))),
      Body("", Unparseable(Msg(<<"Unexpected end of JSON input">>))) }

\* a success path that stores json.files whatever it is
JsonOutcomeMutFilesAsIs(body) ==
    LET json == body.parsed IN
    IF json.t = "unparseable"
    THEN [ok |-> FALSE, err |-> Exception("SyntaxError", json.message)]
    ELSE IF json.t = "null"
    THEN [ok |-> FALSE,
          err |-> Exception("TypeError",
                     Msg(<<"Cannot read properties of null (reading 'answer_markdown')">>))]
    ELSE [ok |-> TRUE,
          answer |-> IF Truthy(Get(json, "answer_markdown"))
                     THEN Get(json, "answer_markdown") ELSE Str(NoText),
          files |-> Get(json, "files")]

\* lines 150-152: const json = await res.json(); json.answer_markdown || "";
\* Array.isArray(json.files) ? json.files : []  -- the values handed to
\* setAnswer and setFiles, or what was thrown before they were called
JsonOutcome(body) ==
    LET json == body.parsed IN
    IF json.t = "unparseable"
    THEN [ok |-> FALSE, err |-> Exception("SyntaxError", json.message)]
    ELSE IF json.t = "null"
    THEN [ok |-> FALSE,
          err |-> Exception("TypeError",
                     Msg(<<"Cannot read properties of null (reading 'answer_markdown')">>))]
    ELSE [ok |-> TRUE,
          answer |-> IF Truthy(Get(json, "answer_markdown"))
                     THEN Get(json, "answer_markdown") ELSE Str(NoText),
          files |-> IF Get(json, "files").t = "arr"
                    THEN Get(json, "files") ELSE Arr(<<>>)]

---------------------------------------------------------------------------
(* The configuration the page can be loaded with *)

\* every combination of the five sources other than storage
Envs ==
    [ qp       : {NoText, UrlQuery, UrlFtp},
      glob     : {NoText, UrlGlobal},
      vite     : {NoText, UrlVite},
      metaNext : {NoText, UrlMetaNext},
      nextVar  : {NoText, UrlNextVar} ]

\* what storage can hold before the component ever ran
StoredBefore == {NoText, UrlStored}

\* what the user can type into the settings field
TypedUrls == {NoText, UrlTyped, UrlFtp, UrlOneSlash, UrlInfix}

---------------------------------------------------------------------------
(* Page load: a new component instance, its first render, the mount effect *)
(* and the persist effect that follows the mount effect's setWebhookUrl    *)

\* the component state of a fresh instance
FreshComponent ==
    [loading |-> FALSE, error |-> Null, answer |-> Str(NoText), files |-> Arr(<<>>),
     pingStatus |-> "idle"]

\* the first load of the page, storage holding `stored`
FirstLoad(e, stored) ==
    LET resolved == resolveWebhookUrlClientSafe(e, stored) IN
    /\ env = e
    /\ lsAtLoad = stored
    /\ resolvedAtLoad = resolved
    /\ webhookUrl = resolved
    /\ configNotice = NoticeFor(resolved)
    /\ storage = Persisted(NoText, resolved, stored)
    /\ loading = FreshComponent.loading
    /\ error = FreshComponent.error
    /\ answer = FreshComponent.answer
    /\ files = FreshComponent.files
    /\ pingStatus = FreshComponent.pingStatus
    /\ submits = <<>>
    /\ pings = 0
    /\ md = NoText
    /\ html = NoText

\* a later load: the old instance and its pending continuations are gone
Load(e) ==
    LET resolved == resolveWebhookUrlClientSafe(e, storage) IN
    /\ env' = e
    /\ lsAtLoad' = storage
    /\ resolvedAtLoad' = resolved
    /\ webhookUrl' = resolved
    /\ configNotice' = NoticeFor(resolved)
    /\ storage' = Persisted(NoText, resolved, storage)
    /\ loading' = FreshComponent.loading
    /\ error' = FreshComponent.error
    /\ answer' = FreshComponent.answer
    /\ files' = FreshComponent.files
    /\ pingStatus' = FreshComponent.pingStatus
    /\ submits' = <<>>
    /\ pings' = 0
    /\ UNCHANGED renderVars

\* onChange of the settings field, and the persist effect it triggers
SetWebhookUrl(u) ==
    /\ webhookUrl' = u
    /\ storage' = Persisted(webhookUrl, u, storage)
    /\ UNCHANGED <<env, lsAtLoad, resolvedAtLoad, configNotice, loading, error, answer, files,
                   pingStatus, submits, pings, md, html>>

---------------------------------------------------------------------------
(* handleSubmit *)

\* a handleSubmit call suspended at an await: at fetch, at res.text() or at
\* res.json(); status is res.status once fetch has resolved.
Pending(phase, status) == [phase |-> phase, status |-> status]

Without(seq, i) == SubSeq(seq, 1, i - 1) \o SubSeq(seq, i + 1, Len(seq))

\* a submit control that stays enabled while a submission is loading
SubmitEnabledMutAlways == TRUE

\* line 293: the form's only submit button carries disabled={loading}; a
\* disabled default button takes no click and blocks implicit submission
\* from the token input, so the form fires no submit event while loading.
\* setLoading(true) runs before the first await of handleSubmit, so the
\* button is disabled once the event that started the call has been handled.
SubmitEnabled == ~loading

\* lines 117-143: the synchronous part, up to the await of fetch
HandleSubmit ==
    /\ SubmitEnabled
    /\ IF ~IsWebhookLikelyValid(webhookUrl)
       THEN /\ loading' = FALSE
            /\ error' = INVALID_SUBMIT_MSG
            /\ UNCHANGED submits
       ELSE /\ Len(submits) < MaxSubmits
            /\ loading' = TRUE
            /\ error' = Null
            /\ submits' = Append(submits, Pending("fetch", 0))
    /\ answer' = Str(NoText)
    /\ files' = Arr(<<>>)
    /\ UNCHANGED <<configVars, pingStatus, pings, md, html>>

\* lines 139-150: fetch resolved with a response; the timer is cleared and
\* the call suspends again at res.text() (not ok) or res.json() (ok)
SubmitFetchResolved(i, status) ==
    /\ submits[i].phase = "fetch"
    /\ submits' = [submits EXCEPT
                     ![i].phase = IF ResOk(status) THEN "json" ELSE "text",
                     ![i].status = status]
    /\ UNCHANGED <<configVars, resultVars, pingStatus, pings, md, html>>

\* catch and finally of handleSubmit, entered by call i with err thrown
SubmitFailed(i, err) ==
    /\ error' = SubmitCatch(err)
    /\ loading' = FALSE
    /\ submits' = Without(submits, i)
    /\ UNCHANGED <<configVars, answer, files, pingStatus, pings, md, html>>

\* fetch rejected: the network failed
SubmitFetchRejected(i, err) ==
    /\ submits[i].phase = "fetch"
    /\ SubmitFailed(i, err)

\* line 137: the 60 s timer fired before fetch settled; abort() rejects it
SubmitTimeout(i) ==
    /\ submits[i].phase = "fetch"
    /\ SubmitFailed(i, AbortError)

\* lines 147-148: res.text() resolved with t; the upstream error is thrown
SubmitTextRead(i, t) ==
    /\ submits[i].phase = "text"
    /\ SubmitFailed(i, Exception("Error", UpstreamMsg(submits[i].status, t)))

\* res.text() or res.json() rejected: the body could not be read
SubmitBodyFailed(i, err) ==
    /\ submits[i].phase \in {"text", "json"}
    /\ SubmitFailed(i, err)

\* lines 150-152 and 159-161: res.json() settled on body
SubmitJsonRead(i, body) ==
    /\ submits[i].phase = "json"
    /\ LET out == JsonOutcome(body) IN
       IF out.ok
       THEN /\ answer' = out.answer
            /\ files' = out.files
            /\ loading' = FALSE
            /\ submits' = Without(submits, i)
            /\ UNCHANGED <<configVars, error, pingStatus, pings, md, html>>
       ELSE SubmitFailed(i, out.err)

---------------------------------------------------------------------------
(* handlePing *)

\* lines 190-202: the synchronous part, up to the await of fetch
HandlePing ==
    /\ IF ~IsWebhookLikelyValid(webhookUrl)
       THEN /\ pingStatus' = "fail"
            /\ error' = INVALID_PING_MSG
            /\ UNCHANGED pings
       ELSE /\ pings < MaxPings
            /\ pingStatus' = "running"
            /\ error' = Null
            /\ pings' = pings + 1
    /\ UNCHANGED <<configVars, loading, answer, files, submits, md, html>>

\* lines 202-208: fetch resolved with a response of this status
PingFetchResolved(status) ==
    /\ pings > 0
    /\ pings' = pings - 1
    /\ IF ResOk(status)
       THEN /\ pingStatus' = "ok"
            /\ UNCHANGED error
       ELSE /\ pingStatus' = "fail"
            /\ error' = PingCatch(Exception("Error", PingStatusMsg(status)))
    /\ UNCHANGED <<configVars, loading, answer, files, submits, md, html>>

\* lines 205-208: fetch rejected
PingFetchRejected(err) ==
    /\ pings > 0
    /\ pings' = pings - 1
    /\ pingStatus' = "fail"
    /\ error' = PingCatch(err)
    /\ UNCHANGED <<configVars, loading, answer, files, submits, md, html>>

---------------------------------------------------------------------------
(* Spec: one page, loaded with nothing but storage configured, and every   *)
(* interleaving of edits, submissions, probes and their continuations      *)

NoSources ==
    [qp |-> NoText, glob |-> NoText, vite |-> NoText, metaNext |-> NoText,
     nextVar |-> NoText]

Init == \E s \in StoredBefore : FirstLoad(NoSources, s)

Next ==
    \/ \E u \in TypedUrls : SetWebhookUrl(u)
    \/ HandleSubmit
    \/ \E i \in 1..Len(submits), st \in Statuses : SubmitFetchResolved(i, st)
    \/ \E i \in 1..Len(submits), err \in NetworkErrors : SubmitFetchRejected(i, err)
    \/ \E i \in 1..Len(submits) : SubmitTimeout(i)
    \/ \E i \in 1..Len(submits), t \in ErrorTexts : SubmitTextRead(i, t)
    \/ \E i \in 1..Len(submits), err \in NetworkErrors : SubmitBodyFailed(i, err)
    \/ \E i \in 1..Len(submits), b \in Bodies : SubmitJsonRead(i, b)
    \/ HandlePing
    \/ \E st \in Statuses : PingFetchResolved(st)
    \/ \E err \in NetworkErrors : PingFetchRejected(err)

Spec == Init /\ [][Next]_vars

---------------------------------------------------------------------------
(* SpecConfig: page loads under every combination of sources, and edits of *)
(* the endpoint between them                                               *)

InitConfig == \E e \in Envs, s \in StoredBefore : FirstLoad(e, s)

NextConfig ==
    \/ \E e \in Envs : Load(e)
    \/ \E u \in TypedUrls : SetWebhookUrl(u)

SpecConfig == InitConfig /\ [][NextConfig]_vars

---------------------------------------------------------------------------
(* renderMarkdown *)

(***************************************************************************)
(* The result is a sequence of tokens.  A one-character token is a         *)
(* character copied from the source (the grave accent is the token BT);    *)
(* the markup the renderer writes is a                                     *)
(* token of its own ("<strong>", "&lt;", ...).  None of the renderer's     *)
(* tokens contains a character that a later pattern looks for (backtick,   *)
(* asterisk, hash, line feed), so a later pattern skips them as it skips   *)
(* any other character.                                                    *)
(***************************************************************************)

NL == "\n"

\* the grave accent (U+0060), which a TLA+ string cannot hold
BT == "grave"

PRE_OPEN == "<pre class=\"bg-gray-900 text-gray-100 p-4 rounded-2xl overflow-x-auto\"><code>"
PRE_CLOSE == "</code></pre>"
H1_OPEN == "<h1 class=\"text-2xl font-semibold mb-2\">"
H2_OPEN == "<h2 class=\"text-xl font-semibold mt-4 mb-2\">"
H3_OPEN == "<h3 class=\"text-lg font-semibold mt-3 mb-2\">"
CODE_OPEN == "<code class=\"bg-gray-100 px-1 rounded\">"

\* \w
WordChars ==
    {"a","b","c","d","e","f","g","h","i","j","k","l","m","n","o","p","q","r",
     "s","t","u","v","w","x","y","z","A","B","C","D","E","F","G","H","I","J",
     "K","L","M","N","O","P","Q","R","S","T","U","V","W","X","Y","Z","0","1",
     "2","3","4","5","6","7","8","9","_"}

\* the literal lits occurs in s at position i
LiteralAt(s, i, lits) ==
    /\ i >= 1
    /\ i + Len(lits) - 1 <= Len(s)
    /\ \A k \in 1..Len(lits) : s[i + k - 1] = lits[k]

\* the first position >= i where lits occurs in s; 0 when there is none
FirstAt(s, i, lits) ==
    LET hits == {e \in i..Len(s) : LiteralAt(s, e, lits)} IN
    IF hits = {} THEN 0 ELSE CHOOSE e \in hits : \A f \in hits : e <= f

\* s.replaceAll(from, to), from a single character
ReplaceAll(s, from, to) ==
    [k \in 1..Len(s) |-> IF s[k] = from THEN to ELSE s[k]]

\* escapeHtml(s)
escapeHtml(s) ==
    ReplaceAll(ReplaceAll(ReplaceAll(s, "&", "&amp;"), "<", "&lt;"), ">", "&gt;")

Fence == <<BT,BT,BT>>

\* the position after the (\w+)? of the fence pattern tried at i
AfterLang(s, i) ==
    LET stops == {j \in (i + 3)..(Len(s) + 1) :
                     j = Len(s) + 1 \/ s[j] \notin WordChars} IN
    CHOOSE j \in stops : \A k \in stops : j <= k

\* the fence pattern /BT BT BT(\w+)?\n([\s\S]*?)BT BT BT/ tried at i: the position of the closing fence,
\* 0 when the pattern does not match at i
FenceClose(s, i) ==
    IF /\ LiteralAt(s, i, Fence)
       /\ AfterLang(s, i) <= Len(s)
       /\ s[AfterLang(s, i)] = NL
    THEN FirstAt(s, AfterLang(s, i) + 1, Fence)
    ELSE 0

\* .replace(<the fence pattern>/g, ...) from position i on
RECURSIVE ReplaceFences(_, _)
ReplaceFences(s, i) ==
    IF i > Len(s) THEN <<>>
    ELSE IF FenceClose(s, i) > 0
    THEN <<PRE_OPEN>>
         \o escapeHtml(SubSeq(s, AfterLang(s, i) + 1, FenceClose(s, i) - 1))
         \o <<PRE_CLOSE>>
         \o ReplaceFences(s, FenceClose(s, i) + 3)
    ELSE <<s[i]>> \o ReplaceFences(s, i + 1)

\* ^ under the m flag
AtLineStart(s, i) == i = 1 \/ s[i - 1] = NL

\* the end of the line that holds position i: where $ matches
LineEnd(s, i) ==
    IF FirstAt(s, i, <<NL>>) = 0 THEN Len(s) + 1 ELSE FirstAt(s, i, <<NL>>)

\* .replace(/^<marks>(.*$)/gim, open + "$1" + close) from position i on
RECURSIVE ReplaceHeadings(_, _, _, _, _)
ReplaceHeadings(s, i, marks, open, close) ==
    IF i > Len(s) THEN <<>>
    ELSE IF AtLineStart(s, i) /\ LiteralAt(s, i, marks)
    THEN <<open>>
         \o SubSeq(s, i + Len(marks), LineEnd(s, i + Len(marks)) - 1)
         \o <<close>>
         \o ReplaceHeadings(s, LineEnd(s, i + Len(marks)), marks, open, close)
    ELSE <<s[i]>> \o ReplaceHeadings(s, i + 1, marks, open, close)

\* /<delim>(.*?)<delim>/ or /BT([^BT]+)BT/ tried at i: the position of the
\* closing delimiter, 0 when the pattern does not match at i.  dot: the
\* group is (.*?), which stops at a line feed; otherwise it is ([^BT]+),
\* which needs one character at least
DelimClose(s, i, delim, dot) ==
    LET from == i + Len(delim)
        e == FirstAt(s, from, delim)
    IN IF ~LiteralAt(s, i, delim) \/ e = 0 THEN 0
       ELSE IF dot
       THEN (IF \A k \in from..(e - 1) : s[k] # NL THEN e ELSE 0)
       ELSE (IF e > from THEN e ELSE 0)

\* .replace(<pattern>/g, open + "$1" + close) from position i on
RECURSIVE ReplaceDelimited(_, _, _, _, _, _)
ReplaceDelimited(s, i, delim, dot, open, close) ==
    IF i > Len(s) THEN <<>>
    ELSE IF DelimClose(s, i, delim, dot) > 0
    THEN <<open>>
         \o SubSeq(s, i + Len(delim), DelimClose(s, i, delim, dot) - 1)
         \o <<close>>
         \o ReplaceDelimited(s, DelimClose(s, i, delim, dot) + Len(delim),
                             delim, dot, open, close)
    ELSE <<s[i]>> \o ReplaceDelimited(s, i + 1, delim, dot, open, close)

\* .replace(/\n\n/g, "<br/><br/>") from position i on
RECURSIVE ReplaceBlankLines(_, _)
ReplaceBlankLines(s, i) ==
    IF i > Len(s) THEN <<>>
    ELSE IF LiteralAt(s, i, <<NL, NL>>)
    THEN <<"<br/><br/>">> \o ReplaceBlankLines(s, i + 2)
    ELSE <<s[i]>> \o ReplaceBlankLines(s, i + 1)

\* renderMarkdown(source).__html
renderMarkdown(source) ==
    LET fenced == ReplaceFences(source, 1)
        h1 == ReplaceHeadings(fenced, 1, <<"#", " ">>, H1_OPEN, "</h1>")
        h2 == ReplaceHeadings(h1, 1, <<"#", "#", " ">>, H2_OPEN, "</h2>")
        h3 == ReplaceHeadings(h2, 1, <<"#", "#", "#", " ">>, H3_OPEN, "</h3>")
        strong == ReplaceDelimited(h3, 1, <<"*", "*">>, TRUE, "<strong>", "</strong>")
        em == ReplaceDelimited(strong, 1, <<"*">>, TRUE, "<em>", "</em>")
        code == ReplaceDelimited(em, 1, <<BT>>, FALSE, CODE_OPEN, "</code>")
    IN ReplaceBlankLines(code, 1)

\* the pieces the answers of the model are put together from
Pieces ==
    { Fence, <<NL>>, <<"<">>, <<">">>, <<"&">>, <<"*">>, <<"*", "*">>,
      <<"#", " ">>, <<BT>>, <<"a">> }

RECURSIVE Concatenations(_)
Concatenations(n) ==
    IF n = 0 THEN {<<>>}
    ELSE Concatenations(n - 1)
         \cup {s \o p : s \in Concatenations(n - 1), p \in Pieces}

MarkdownInputs == Concatenations(MaxPieces) \ {<<>>}

\* line 323: the answer panel is rendered when answer is truthy
Render ==
    /\ Truthy(answer)
    /\ answer.t = "str"
    /\ md' = answer.s
    /\ html' = renderMarkdown(answer.s)
    /\ UNCHANGED <<configVars, resultVars, pingStatus, submits, pings>>

---------------------------------------------------------------------------
(* SpecRender: the page after a submission whose answer is any of the      *)
(* markdown inputs, and the rendering of that answer                       *)

InitRender ==
    \E m \in MarkdownInputs :
        /\ env = NoSources
        /\ lsAtLoad = UrlStored
        /\ resolvedAtLoad = UrlStored
        /\ webhookUrl = UrlStored
        /\ configNotice = FALSE
        /\ storage = UrlStored
        /\ loading = FALSE
        /\ error = Null
        /\ answer = Str(m)
        /\ files = Arr(<<>>)
        /\ pingStatus = "idle"
        /\ submits = <<>>
        /\ pings = 0
        /\ md = NoText
        /\ html = NoText

NextRender == Render

SpecRender == InitRender /\ [][NextRender]_vars

---------------------------------------------------------------------------
(* Claims about the endpoint configuration (SpecConfig) *)

\* the six sources as the last mount saw them, in the documented order
SourcesAtLoad ==
    <<env.qp, lsAtLoad, env.glob, env.vite, env.metaNext, env.nextVar>>

NonEmptySources == {k \in 1..6 : SourcesAtLoad[k] # NoText}

FirstNonEmptySource ==
    CHOOSE k \in NonEmptySources : \A j \in NonEmptySources : k <= j

\* C1 (as claimed): the resolver returns the value of the first non-empty
\* source in the order query parameter, storage, injected global,
\* import.meta.env (VITE_ then NEXT_PUBLIC_), process.env; it returns the
\* placeholder exactly when every source is empty, and then the mount step
\* sets the configuration-incomplete notice.
C1_PlaceholderIffAllEmpty ==
    /\ NonEmptySources # {} =>
          resolvedAtLoad = SourcesAtLoad[FirstNonEmptySource]
    /\ (resolvedAtLoad = DEFAULT_WEBHOOK_FALLBACK) <=> (NonEmptySources = {})
    /\ NonEmptySources = {} => configNotice

\* C1 (amended): the resolver returns the value of the first non-empty source
\* in that order; when every source is empty it returns the placeholder; it
\* returns the placeholder otherwise only when the first non-empty source
\* itself holds the placeholder text (as storage does after a load that
\* found nothing configured); the mount step sets the notice exactly when
\* the resolved value is the placeholder.
C1_FirstNonEmptySourceWins ==
    /\ NonEmptySources # {} =>
          resolvedAtLoad = SourcesAtLoad[FirstNonEmptySource]
    /\ NonEmptySources = {} => resolvedAtLoad = DEFAULT_WEBHOOK_FALLBACK
    /\ configNotice <=> (resolvedAtLoad = DEFAULT_WEBHOOK_FALLBACK)

\* all six sources supplied at once, the query parameter winning
C1_Witness ==
    /\ NonEmptySources = 1..6
    /\ Cardinality({SourcesAtLoad[k] : k \in 1..6}) = 6
    /\ resolvedAtLoad = env.qp
    /\ ~configNotice

\* C5 (as claimed): on each new load a non-empty query parameter and a
\* non-empty injected global each override the value previously written to
\* storage.
C5_QueryAndGlobalOverrideStorage ==
    [][\A e \in Envs : Load(e) =>
          /\ e.qp # NoText => webhookUrl' = e.qp
          /\ (e.qp = NoText /\ e.glob # NoText) => webhookUrl' = e.glob]_vars

\* C5 (amended): on each new load a non-empty query parameter overrides the
\* value previously written to storage; without a query parameter the stored
\* value is the resolved endpoint, also when an injected global is present.
C5_OnlyQueryOverridesStorage ==
    [][\A e \in Envs : Load(e) =>
          /\ e.qp # NoText => webhookUrl' = e.qp
          /\ (e.qp = NoText /\ storage # NoText) => webhookUrl' = storage]_vars

\* a load whose query parameter replaced an endpoint the user had typed
C5_Witness ==
    /\ env.qp # NoText
    /\ lsAtLoad = UrlTyped
    /\ env.qp # lsAtLoad
    /\ webhookUrl = env.qp
    /\ storage = env.qp

\* the claims' reading of "valid": the text starts with http:// or https://,
\* in any mix of upper and lower case
StartsWithHttpScheme(u) ==
    \E n \in {7, 8} :
        /\ Len(u) >= n
        /\ [k \in 1..n |->
              CASE u[k] = "H" -> "h" [] u[k] = "T" -> "t"
                [] u[k] = "P" -> "p" [] u[k] = "S" -> "s" [] OTHER -> u[k]]
           \in { <<"h","t","t","p",":","/","/">>,
                 <<"h","t","t","p","s",":","/","/">> }

\* C6: once the endpoint is a valid URL u (typed by the user or resolved), a
\* load with no query parameter and no injected global resolves to u.
C6_RoundTrip ==
    [][\A e \in Envs :
          (Load(e) /\ e.qp = NoText /\ e.glob = NoText
                   /\ StartsWithHttpScheme(webhookUrl))
          => (webhookUrl' = webhookUrl /\ lsAtLoad' = webhookUrl)]_vars

\* a load that read the URL the user had typed back from storage
C6_Witness ==
    /\ env.qp = NoText
    /\ env.glob = NoText
    /\ lsAtLoad = UrlTyped
    /\ resolvedAtLoad = UrlTyped
    /\ webhookUrl = UrlTyped
    /\ StartsWithHttpScheme(UrlTyped)

---------------------------------------------------------------------------
(* Claims about submissions and probes (Spec) *)

\* C2: a submit or a ping triggered while the endpoint does not start with
\* http:// or https:// (any case; the empty text included) sends nothing and
\* ends at once with an error stored: the submit with loading false, the
\* ping with status fail.
C2_InvalidEndpointFailsFast ==
    [][~StartsWithHttpScheme(webhookUrl) =>
          /\ HandleSubmit => /\ submits' = submits /\ pings' = pings
                             /\ loading' = FALSE
                             /\ error' # Null
          /\ HandlePing => /\ submits' = submits /\ pings' = pings
                           /\ pingStatus' = "fail"
                           /\ error' # Null]_vars

\* a submit with the endpoint field empty has been refused
C2_Witness ==
    /\ webhookUrl = NoText
    /\ error = INVALID_SUBMIT_MSG
    /\ ~loading
    /\ submits = <<>>
    /\ pings = 0

\* the messages of a non-2xx response, for the statuses and texts of the model
UpstreamMessages ==
    { Msg(<<"Upstream error ", code, ": ", t>>) :
        code \in {"200", "204", "500"}, t \in ErrorTexts }

\* C3: when the 60 s timer fires on a submission still waiting for fetch, the
\* submission ends: loading is false and the stored error is the timed-out
\* message, which is neither an upstream-error message nor "Request failed".
C3_TimeoutEndsSubmission ==
    [][\A i \in 1..Len(submits) : SubmitTimeout(i) =>
          /\ loading' = FALSE
          /\ error' = Msg(<<"Request timed out after 60s. Try again or check your n8n logs.">>)
          /\ error' \notin UpstreamMessages \cup {Msg(<<"Request failed">>)}
          /\ Len(submits') = Len(submits) - 1]_vars

\* a submission has timed out and nothing is pending
C3_Witness ==
    /\ error = TIMED_OUT_MSG
    /\ ~loading
    /\ submits = <<>>

\* the decimal text of the statuses of the model
StatusCodeText(st) ==
    CASE st = 200 -> "200" [] st = 204 -> "204" [] st = 500 -> "500"

\* C7: a probe started with a valid endpoint sets the status to running and
\* sends its request; when the request completes the status is ok exactly
\* for a 2xx response; a non-2xx response gives fail and an error message
\* that contains the status code; a network failure gives fail and an error
\* message.
C7_ProbeOutcome ==
    [][/\ (HandlePing /\ StartsWithHttpScheme(webhookUrl)) =>
              (pingStatus' = "running" /\ pings' = pings + 1)
       /\ \A st \in Statuses : PingFetchResolved(st) =>
              /\ (pingStatus' = "ok") <=> (st \in 200..299)
              /\ st \notin 200..299 =>
                    /\ pingStatus' = "fail"
                    /\ error' # Null
                    /\ \E k \in 1..Len(error'.parts) :
                          error'.parts[k] = StatusCodeText(st)
       /\ \A err \in NetworkErrors : PingFetchRejected(err) =>
              /\ pingStatus' = "fail"
              /\ error' # Null
              /\ ~IsEmptyMsg(error')]_vars

\* a probe was answered with 500
C7_Witness ==
    /\ pingStatus = "fail"
    /\ error = Msg(<<"Ping failed: ", "500">>)
    /\ pings = 0

\* field `key` of a parsed record, Undef when the record has no such field
Field(record, key) ==
    IF key \in DOMAIN record.fields THEN record.fields[key] ELSE Undef

\* the attachments the claims expect for a parsed record
ExpectedFiles(record) ==
    IF Field(record, "files").t = "arr" THEN Field(record, "files")
    ELSE Arr(<<>>)

\* C8 (as claimed): for a 2xx body that parses to a record, the stored answer
\* is the record's answer_markdown, or the empty text when the field is
\* absent; the stored files are the record's files when that is a sequence
\* and the empty sequence otherwise.
C8_AnswerIsFieldOrEmptyWhenAbsent ==
    [][\A i \in 1..Len(submits), b \in Bodies :
          (b.parsed.t = "obj" /\ SubmitJsonRead(i, b)) =>
              /\ answer' = IF Field(b.parsed, "answer_markdown") = Undef
                           THEN Str(NoText)
                           ELSE Field(b.parsed, "answer_markdown")
              /\ files' = ExpectedFiles(b.parsed)]_vars

\* the values JavaScript's || skips
FalsyValues == {Undef, Null, Bool(FALSE), Num(0), Str(NoText)}

\* C8 (amended): for a 2xx body that parses to a record, the stored answer
\* is the record's answer_markdown, or the empty text when the field is
\* absent or falsy (null, false, 0, ""); the stored files are the record's
\* files when that is a sequence and the empty sequence otherwise.
C8_AnswerIsFieldOrEmptyWhenFalsy ==
    [][\A i \in 1..Len(submits), b \in Bodies :
          (b.parsed.t = "obj" /\ SubmitJsonRead(i, b)) =>
              /\ answer' = IF Field(b.parsed, "answer_markdown") \in FalsyValues
                           THEN Str(NoText)
                           ELSE Field(b.parsed, "answer_markdown")
              /\ files' = ExpectedFiles(b.parsed)
              /\ files'.t = "arr"]_vars

\* an answer was stored with the empty sequence of files
C8_Witness ==
    /\ answer = Str(Hi)
    /\ files = Arr(<<>>)
    /\ error = Null
    /\ ~loading
    /\ submits = <<>>

\* C9 (as claimed): a 2xx response never fails the submission, whatever its
\* body: reading the body stores no error.
C9_MalformedBodyNeverFails ==
    [][\A i \in 1..Len(submits), b \in Bodies :
          (error = Null /\ SubmitJsonRead(i, b)) => error' = Null]_vars

\* C11: loading is true exactly while a submission that passed validation is
\* in flight, that is, while a handleSubmit call is suspended at fetch, at
\* res.text() or at res.json(); it is false when none is.
C11_LoadingIffInFlight ==
    loading <=> (submits # <<>>)

\* a submission got its response and is still reading the body, the flag set
C11_Witness ==
    /\ loading
    /\ Len(submits) = 1
    /\ submits[1].phase = "json"

---------------------------------------------------------------------------
(* Claims about the renderer (SpecRender) *)

\* C10 (as claimed): the rendered markup holds no character <, > or & copied
\* from the source: each appears in escaped form only, inside a fenced code
\* block and outside it.
C10_NoRawMarkupCharacters ==
    \A k \in 1..Len(html) : html[k] \notin {"<", ">", "&"}

=============================================================================
